---- MODULE Spec2Model ----
(***************************************************************************)
(* A model of the motorized filament rewinder:                             *)
(*   - Drv8833Motor   (src/drv8833_motor.py): duty encoding, kick-start    *)
(*     and minimum-interval scheduling of one DC motor on a DRV8833;       *)
(*   - MmuRewinderPatch (src/mmu_rewinder_patch.py): the stage dispatcher  *)
(*     wrapped around the MMU's _trace_filament_move and the BLE link.     *)
(*                                                                         *)
(* Numbers.  Python floats are modelled by a small binary floating-point   *)
(* format: Precision significand bits, round-to-nearest-even, values held  *)
(* as integer multiples of 2^-FracBits (so One stands for 1.0).  Every     *)
(* arithmetic operation of the source that can round (products and        *)
(* differences) goes through FRound.  Times are integers in ticks of       *)
(* 0.05 s.                                                                 *)
(***************************************************************************)
EXTENDS Integers, Sequences, FiniteSets, TLC

\* ------------------------------------------------------------- bounds
Precision == 3          \* significand bits of the modelled float format
MaxTime == 6            \* largest print_time (ticks) a call is made with
MaxKickStartTime == 2   \* largest configured kick_start_time (ticks)
MaxQueue == 1           \* coroutines handed to the BLE loop and not yet finished

\* ------------------------------------------------- program constants
MOTOR_MIN_TIME == 2     \* 0.100 s in ticks of 0.05 s

\* ------------------------------------------------ float arithmetic
FracBits == Precision + 2
One == 2 ^ FracBits
Half == One \div 2
Threshold == Half       \* the literal .5 of set_speed

RECURSIVE BitLen(_)
BitLen(m) == IF m = 0 THEN 0 ELSE 1 + BitLen(m \div 2)

\* m / 2^(2*FracBits), m >= 0, rounded to the nearest float (ties to even);
\* the result is in units of 2^-FracBits.
FRound(m) ==
    IF m = 0 THEN 0
    ELSE LET e    == BitLen(m)
             sh   == IF e - Precision > FracBits THEN e - Precision ELSE FracBits
             step == 2 ^ sh
             q    == m \div step
             r    == m % step
             up   == (2 * r > step) \/ (2 * r = step /\ q % 2 = 1)
         IN ((IF up THEN q + 1 ELSE q) * step) \div One

Abs(x) == IF x < 0 THEN -x ELSE x
Sign(x) == IF x < 0 THEN -1 ELSE 1
Min(x, y) == IF x < y THEN x ELSE y
Max(x, y) == IF x > y THEN x ELSE y

FMul(x, y) == Sign(x) * Sign(y) * FRound(Abs(x) * Abs(y))
FSub(x, y) == Sign(x - y) * FRound(Abs(x - y) * One)

\* ------------------------------------------------------------ inputs
\* A velocity just above 1/4 that uses every significand bit.
Odd == One \div 4 + One \div (2 ^ (Precision + 1))
Magnitudes == {0, Odd, Half, Half + One \div 4, One, One + Half}
Velocities == {s * m : s \in {-1, 1}, m \in Magnitudes}
DecayModes == {"fast", "slow"}
MaxPowers == {One, Half + One \div 4}
KickStartSpeeds == {One, Half}
KickStartTimes == 0 .. MaxKickStartTime
PrintTimes == {0, MaxTime \div 2, MaxTime}

VARIABLES
    \* Drv8833Motor
    max_power, kick_start_speed, kick_start_time,
    last_speed_a, last_speed_b, last_decay_mode, last_motor_time,
    \* observation of the last call on the motor
    call,       \* [op, print_time, velocity, decay_mode]
    pre,        \* the motor's fields before the call
    updates,    \* the duty updates the call scheduled: <<[time, a, b], ...>>
    ret,        \* what the call returned: None, or <<value>>
    sched_prev, \* time of the last duty update scheduled before the call, -1 if none
    commanded   \* [velocity, decay_mode] of the last set_speed that was not a no-op

motor_vars == <<max_power, kick_start_speed, kick_start_time,
                last_speed_a, last_speed_b, last_decay_mode, last_motor_time,
                call, pre, updates, ret, sched_prev, commanded>>

VARIABLES
    \* MmuRewinderPatch and its collaborators
    klippy,         \* "init", "ready", "error" (a connect handler raised), "closed"
    ble_loop,       \* self.ble_loop: "None" or the loop of the BLE thread
    ble_devices,    \* self.ble_devices: the clients appended by _connect_bles
    is_connected,   \* client.is_connected of the client of each address
    gate_selected,  \* mmu.gate_selected
    pc,             \* the caller's position: "idle", or "moving" inside the wrapped move
    stage,          \* the current or last _trace_filament_move call and what it did
    ble_queue,      \* coroutines handed to the BLE loop, not yet started
    inflight,       \* sends whose write_gatt_char is awaiting completion
    exc,            \* the exception the last handler raised to its caller
    \* observation
    io_log,         \* {<<link operation, execution context>>}
    observer_fired, \* per device: firings of the disconnect observer
    mmu_paused,     \* per device: mmu._mmu_pause calls naming it
    fired_inflight, \* an observer fired while a send to its device was in flight
    stale_writes,   \* devices written to by a rewind_control call made after their loss
    last_mode,      \* per rewinder: the last mode command issued to it
    faulted,        \* some stage has raised
    send_failures   \* how failed sends ended: "reported" (a pause was raised
                    \* for the device as the send failed) or "dropped"

patch_vars == <<klippy, ble_loop, ble_devices, is_connected, gate_selected,
                pc, stage, ble_queue, inflight, exc, io_log,
                observer_fired, mmu_paused, fired_inflight, stale_writes,
                last_mode, faulted, send_failures>>

vars == <<motor_vars, patch_vars>>

\* ------------------------------------------------------ Drv8833Motor
\* Python's None: as a velocity, a value no float in [-1, 1] equals; as a
\* returned value, the empty tuple (a returned value v is <<v>>).
NoVelocity == 4 * One
None == <<>>

\* ab_to_velocity(a, b)
ab_to_velocity(a, b) ==
    IF b = 0 THEN a
    ELSE IF a = 0 THEN -b
    ELSE IF b = One THEN FSub(a, One)
    ELSE IF a = One THEN FSub(One, b)
    ELSE NoVelocity

\* the last_motor_velocity property
last_motor_velocity == ab_to_velocity(last_speed_a, last_speed_b)

\* line 68: copysign(max(0., min(max_power, abs(velocity) * max_power)), velocity)
ClampNone(velocity) == FMul(Abs(velocity), max_power) * Sign(velocity)
Clamp(velocity) ==
    Sign(velocity) * Max(0, Min(max_power, FMul(Abs(velocity), max_power)))

\* line 69: the early return
IsNoOp(velocity, decay_mode) ==
    /\ Clamp(velocity) = last_motor_velocity
    /\ decay_mode = last_decay_mode

\* lines 71-80: the steady-state pair and the kick-start pair
SwapNever(p, velocity) == p
Swap(p, velocity) == IF velocity < 0 THEN <<p[2], p[1]>> ELSE p
SpeedPair(velocity, decay_mode) ==
    LET speed == Abs(velocity)
    IN Swap(IF decay_mode = "fast" THEN <<speed, 0>>
            ELSE <<One, FSub(One, speed)>>, velocity)
KickPair(velocity, decay_mode) ==
    Swap(IF decay_mode = "fast" THEN <<kick_start_speed, 0>>
         ELSE <<One, FSub(One, kick_start_speed)>>, velocity)

\* line 82
EffectiveTime(print_time) == Max(last_motor_time + MOTOR_MIN_TIME, print_time)

\* line 83: speed and kick_start_time and abs(velocity - last_motor_velocity) > .5
KickStart(velocity) ==
    /\ Abs(velocity) # 0
    /\ kick_start_time # 0
    /\ Abs(FSub(velocity, last_motor_velocity)) > Threshold

\* line 85
SteadyTimeSame(t) == t
SteadyTime(t) == t + kick_start_time

Snapshot == [last_speed_a |-> last_speed_a, last_speed_b |-> last_speed_b,
             last_decay_mode |-> last_decay_mode,
             last_motor_time |-> last_motor_time,
             velocity |-> last_motor_velocity,
             args |-> IF call.op = "get_status" THEN pre.args
                      ELSE <<call.velocity, call.decay_mode>>]

set_speed(print_time, velocity_arg, decay_mode) ==
    LET velocity == Clamp(velocity_arg)
        t0 == EffectiveTime(print_time)
        kick == KickStart(velocity)
        t1 == IF kick THEN SteadyTime(t0) ELSE t0
        sp == SpeedPair(velocity, decay_mode)
        ks == KickPair(velocity, decay_mode)
    IN
    /\ call' = [op |-> "set_speed", print_time |-> print_time,
                velocity |-> velocity_arg, decay_mode |-> decay_mode]
    /\ pre' = Snapshot
    /\ ret' = None
    /\ UNCHANGED <<max_power, kick_start_speed, kick_start_time, patch_vars>>
    /\ sched_prev' = IF updates = <<>> THEN sched_prev
                     ELSE updates[Len(updates)].time
    /\ IF IsNoOp(velocity_arg, decay_mode)
       THEN /\ updates' = <<>>
            /\ UNCHANGED <<last_speed_a, last_speed_b, last_decay_mode,
                           last_motor_time, commanded>>
       ELSE /\ updates' =
                  (IF kick THEN <<[time |-> t0, a |-> ks[1], b |-> ks[2]]>>
                   ELSE <<>>)
                  \o <<[time |-> t1, a |-> sp[1], b |-> sp[2]]>>
            /\ last_speed_a' = sp[1]
            /\ last_speed_b' = sp[2]
            /\ last_motor_time' = t1
            /\ last_decay_mode' = decay_mode
            /\ commanded' = [velocity |-> velocity, decay_mode |-> decay_mode]

\* cmd_SET_MOTOR_VELOCITY / _handle_request_restart: the callers of set_speed
SetSpeed ==
    \E print_time \in PrintTimes, velocity \in Velocities, decay_mode \in DecayModes :
        \* the model's clock stops at MaxTime
        /\ SteadyTime(EffectiveTime(print_time)) <= MaxTime
        /\ set_speed(print_time, velocity, decay_mode)

\* get_status(eventtime): the dict it returns
Status == [velocity |-> last_motor_velocity, decay_mode |-> last_decay_mode]

get_status ==
    /\ call.op # "get_status"      \* a second read in a row shows nothing new
    /\ call' = [op |-> "get_status", print_time |-> 0, velocity |-> 0,
                decay_mode |-> "fast"]
    /\ pre' = Snapshot
    /\ ret' = <<Status>>
    /\ updates' = <<>>
    /\ sched_prev' = IF updates = <<>> THEN sched_prev
                     ELSE updates[Len(updates)].time
    /\ UNCHANGED <<max_power, kick_start_speed, kick_start_time, last_speed_a,
                   last_speed_b, last_decay_mode, last_motor_time, commanded,
                   patch_vars>>

\* Drv8833Motor.__init__ with the configuration read
MotorFields(mp, kss, kst) ==
    /\ max_power = mp
    /\ kick_start_speed = kss
    /\ kick_start_time = kst
    /\ last_speed_a = 0
    /\ last_speed_b = 0
    /\ last_decay_mode = "fast"
    /\ last_motor_time = 0
    /\ call = [op |-> "init", print_time |-> 0, velocity |-> 0, decay_mode |-> "fast"]
    /\ pre = [last_speed_a |-> 0, last_speed_b |-> 0, last_decay_mode |-> "fast",
              last_motor_time |-> 0, velocity |-> 0, args |-> <<0, "fast">>]
    /\ updates = <<>>
    /\ ret = None
    /\ sched_prev = -1
    /\ commanded = [velocity |-> 0, decay_mode |-> "fast"]

MotorNext == SetSpeed \/ get_status

\* ---------------------------------------------------- MmuRewinderPatch
\* Two gates are configured, each with its rewinder and its BLE device.
Gates == {0, 1}
Devices == {0, 1}                    \* index into ble_addresses
NumDevices == Cardinality(Devices)
ble_device_idx(rewinder) == rewinder \* rewinder<i> is configured with device i

GATE_AVAILABLE == "GATE_AVAILABLE"
GATE_AVAILABLE_FROM_BUFFER == "GATE_AVAILABLE_FROM_BUFFER"
GateStatuses == {GATE_AVAILABLE, GATE_AVAILABLE_FROM_BUFFER}

RewindSlowStages ==
    {"Reverse homing to extruder sensor", "Reverse homing to toolhead sensor",
     "Bowden pre-unload test", "Reverse homing to gate sensor",
     "Unloading extruder", "Final parking"}
TraceStrs ==
    {"Course unloading move from bowden", "Course loading move into bowden",
     "Homing to extruder sensor"} \cup RewindSlowStages

\* lines 110-135: the branch _trace_filament_move takes
Mapped(trace_str) ==
    \/ trace_str = "Course unloading move from bowden"
    \/ trace_str \in RewindSlowStages
    \/ trace_str = "Course loading move into bowden"

\* lines 111, 119, 125-131: the mode sent before the wrapped move
\* mmu.gate_status[mmu.gate_selected] is read once, at line 125, and only with
\* a gate selected; it is an input of the call
EntryModeInverted(trace_str, selected_gate_status) ==
    IF trace_str = "Course unloading move from bowden" THEN "rewind_fast"
    ELSE IF trace_str \in RewindSlowStages THEN "rewind_slow"
    ELSE IF trace_str = "Course loading move into bowden"
         THEN IF /\ gate_selected >= 0
                 /\ selected_gate_status = GATE_AVAILABLE_FROM_BUFFER
              THEN "load_slow"
              ELSE "load_fast"
    ELSE "NoChange"
EntryMode(trace_str, selected_gate_status) ==
    IF trace_str = "Course unloading move from bowden" THEN "rewind_fast"
    ELSE IF trace_str \in RewindSlowStages THEN "rewind_slow"
    ELSE IF trace_str = "Course loading move into bowden"
         THEN IF /\ gate_selected >= 0
                 /\ selected_gate_status # GATE_AVAILABLE_FROM_BUFFER
              THEN "load_slow"
              ELSE "load_fast"
    ELSE "NoChange"

\* line 125-126: gate_status is read in this stage only, and only with a gate
StatusInputs(trace_str) ==
    IF trace_str = "Course loading move into bowden" /\ gate_selected >= 0
    THEN GateStatuses ELSE {"unread"}

\* lines 113, 121, 129, 133: the modes sent after the wrapped move returned
ExitModesNone(trace_str) == <<>>
ExitModesAlways(trace_str) == <<"stop">>
ExitModes(trace_str) == IF Mapped(trace_str) THEN <<"stop">> ELSE <<>>

\* lines 112, 120, 128, 132, 135: the calls of the saved routine the wrapper
\* makes, each with the arguments it passes
_mmu_trace_filament_move_mapped(trace_str) ==
    IF Mapped(trace_str) THEN <<<<trace_str, "*args", "**kwargs">>>>
    ELSE <<>>
_mmu_trace_filament_move(trace_str) ==
    <<<<trace_str, "*args", "**kwargs">>>>

\* what the wrapped routine returns (one value for each stage), and line 136:
\* what the wrapper returns
Results(trace_str) == {<<"moved", trace_str>>}
ReturnValue(result) == result

\* lines 122-123
DrainsAlways(trace_str) == TRUE
Drains(trace_str) == trace_str = "Final parking"

\* lines 148-163: decay_mode of the frame
DecayOf(mode) == IF mode = "stop" THEN 1 ELSE 0

\* _rewind_control_send: the coroutine handed to run_on_ble_thread
_rewind_control_send(rewinder, mode) ==
    [kind |-> "send", rewinder |-> rewinder, dev |-> ble_device_idx(rewinder),
     mode |-> mode,
     decay_mode |-> DecayOf(mode),
     after_loss |-> observer_fired[ble_device_idx(rewinder)] > 0,
     writes |-> 0]

\* rewind_control: the coroutines it submits
rewind_control_first(mode) ==
    IF gate_selected >= 0
    THEN <<_rewind_control_send(IF mode = "stop" THEN 0 ELSE gate_selected, mode)>>
    ELSE <<>>
rewind_control(mode) ==
    IF gate_selected >= 0
    THEN <<_rewind_control_send(gate_selected, mode)>>
    ELSE <<>>

RECURSIVE Submit(_, _)
Submit(modes, acc) ==
    IF modes = <<>> THEN acc
    ELSE Submit(Tail(modes), acc \o rewind_control(Head(modes)))

CmdEvent(co) == [ev |-> "cmd", rewinder |-> co.rewinder, mode |-> co.mode]
MoveEvent == [ev |-> "move", rewinder |-> -1, mode |-> ""]
DrainEvent == [ev |-> "drain", rewinder |-> -1, mode |-> ""]
Events(cos) == [i \in 1 .. Len(cos) |-> CmdEvent(cos[i])]

Issue(cos) ==
    [r \in Gates |->
        LET mine == {i \in 1 .. Len(cos) : cos[i].rewinder = r}
        IN IF mine = {} THEN last_mode[r]
           ELSE cos[CHOOSE i \in mine : \A j \in mine : j <= i].mode]

Room(n) == Len(ble_queue) + Len(inflight) + n <= MaxQueue

\* _setup_ble_thread
_setup_ble_thread == IF ble_loop = "None" THEN "ble_loop" ELSE ble_loop

\* handle_connect: _setup_ble_thread, then asyncio.run(_connect_bles()) on the
\* calling thread; the first k addresses connect, the next one (if any) fails.
handle_connect ==
    /\ klippy = "init"
    /\ ble_loop' = _setup_ble_thread
    /\ \E k \in 0 .. NumDevices :
          /\ ble_devices' = ble_devices \o [i \in 1 .. k |-> i - 1]
          /\ is_connected' = [d \in Devices |-> d < k]
          /\ exc' = IF k < NumDevices THEN "configfile.error" ELSE "None"
          /\ klippy' = IF k < NumDevices THEN "error" ELSE "ready"
    /\ io_log' = io_log \cup {<<"connect", "asyncio.run on the caller's thread">>}
    /\ UNCHANGED <<motor_vars, gate_selected, pc, stage, ble_queue, inflight,
                   observer_fired, mmu_paused, fired_inflight, stale_writes,
                   last_mode, faulted, send_failures>>

\* handle_ble_disconnect: the pause raised for the client
handle_ble_disconnect_quiet(clients) ==
    [d \in Devices |->
        IF d \in clients /\ ~ \E i \in 1 .. Len(inflight) : inflight[i].dev = d
        THEN mmu_paused[d] + 1 ELSE mmu_paused[d]]
handle_ble_disconnect(clients) ==
    [d \in Devices |-> IF d \in clients THEN mmu_paused[d] + 1 ELSE mmu_paused[d]]

\* the link of `clients` goes down: bleak fails their pending writes and calls
\* the disconnected_callback of each
LinkDown(clients) ==
    /\ is_connected' = [d \in Devices |-> is_connected[d] /\ d \notin clients]
    /\ observer_fired' =
          [d \in Devices |-> IF d \in clients THEN observer_fired[d] + 1
                             ELSE observer_fired[d]]
    /\ mmu_paused' = handle_ble_disconnect(clients)
    /\ inflight' = SelectSeq(inflight, LAMBDA co : co.dev \notin clients)
    /\ fired_inflight' =
          (fired_inflight \/ \E i \in 1 .. Len(inflight) : inflight[i].dev \in clients)
    /\ send_failures' =
          IF \E i \in 1 .. Len(inflight) : inflight[i].dev \in clients
          THEN send_failures \cup {"reported"} ELSE send_failures

\* the remote device closes the link or times out
DeviceLost ==
    \E d \in Devices :
        /\ is_connected[d]
        /\ LinkDown({d})
        /\ UNCHANGED <<motor_vars, klippy, ble_loop, ble_devices, gate_selected,
                       pc, stage, ble_queue, exc, io_log, stale_writes,
                       last_mode, faulted>>

\* run_on_ble_thread
run_on_ble_thread(cos) == ble_queue' = ble_queue \o cos

\* handle_disconnect
handle_disconnect ==
    /\ klippy \in {"init", "ready", "error"}
    /\ pc = "idle"
    /\ klippy' = "closed"
    /\ IF ble_loop = "None"
       THEN /\ exc' = "AssertionError"
            /\ UNCHANGED ble_queue
       ELSE /\ Room(1)
            /\ exc' = "None"
            /\ run_on_ble_thread(<<[kind |-> "disconnect", rewinder |-> -1,
                                    dev |-> -1, mode |-> "", decay_mode |-> 0,
                                    after_loss |-> FALSE, writes |-> 0]>>)
    /\ UNCHANGED <<motor_vars, ble_loop, ble_devices, is_connected, gate_selected,
                   pc, stage, inflight, io_log, observer_fired, mmu_paused,
                   fired_inflight, stale_writes, last_mode, faulted,
                   send_failures>>

\* _trace_filament_move up to the call of the wrapped routine
StageEnter ==
    \E trace_str \in TraceStrs :
      \E gate_status \in StatusInputs(trace_str) :
        LET cos == IF Mapped(trace_str)
                   THEN rewind_control(EntryMode(trace_str, gate_status))
                   ELSE <<>>
        IN
        /\ klippy = "ready"
        /\ pc = "idle"
        /\ Room(Len(cos))
        /\ run_on_ble_thread(cos)
        /\ last_mode' = Issue(cos)
        /\ stage' = [trace_str |-> trace_str, gate |-> gate_selected,
                     gate_status |-> gate_status,
                     events |-> Events(cos) \o
                                [i \in 1 .. Len(_mmu_trace_filament_move(trace_str))
                                    |-> MoveEvent],
                     outcome |-> "running",
                     calls |-> _mmu_trace_filament_move(trace_str),
                     result |-> None, ret |-> None]
        /\ pc' = "moving"
        /\ exc' = "None"
        /\ UNCHANGED <<motor_vars, klippy, ble_loop, ble_devices, is_connected, gate_selected,
                       inflight, io_log, observer_fired, mmu_paused,
                       fired_inflight, stale_writes, faulted, send_failures>>

\* the wrapped routine returns: the rest of _trace_filament_move
MoveReturns ==
    LET cos == Submit(ExitModes(stage.trace_str), <<>>)
    IN
    \E result \in Results(stage.trace_str) :
    /\ pc = "moving"
    /\ Room(Len(cos))
    /\ run_on_ble_thread(cos)
    /\ last_mode' = Issue(cos)
    /\ stage' = [stage EXCEPT
                   !.events = @ \o Events(cos)
                                \o (IF Drains(stage.trace_str) THEN <<DrainEvent>>
                                    ELSE <<>>),
                   !.outcome = "returned",
                   !.result = result,
                   !.ret = ReturnValue(result)]
    /\ pc' = "idle"
    /\ UNCHANGED <<motor_vars, klippy, ble_loop, ble_devices, is_connected, gate_selected,
                   inflight, exc, io_log, observer_fired, mmu_paused,
                   fired_inflight, stale_writes, faulted, send_failures>>

\* the wrapped routine raises: nothing of _trace_filament_move runs after it
MoveRaises ==
    /\ pc = "moving"
    /\ stage' = [stage EXCEPT !.outcome = "raised"]
    /\ pc' = "idle"
    /\ exc' = "MmuError"
    /\ faulted' = TRUE
    /\ UNCHANGED <<motor_vars, klippy, ble_loop, ble_devices, is_connected, gate_selected,
                   ble_queue, inflight, io_log, observer_fired,
                   mmu_paused, fired_inflight, stale_writes, last_mode,
                   send_failures>>

\* the MMU selects a gate (or none) between moves
SelectGate ==
    \E g \in {-1} \cup Gates :
        /\ klippy = "ready"
        /\ pc = "idle"
        /\ g # gate_selected
        /\ gate_selected' = g
        /\ UNCHANGED <<motor_vars, klippy, ble_loop, ble_devices, is_connected,
                       pc, stage, ble_queue, inflight, exc, io_log, observer_fired,
                       mmu_paused, fired_inflight, stale_writes, last_mode, faulted,
                       send_failures>>

\* send_command: the frame is packed and write_gatt_char awaited once. The
\* write stays pending on a connected client and raises at once on any other;
\* `again` is what the coroutine puts back on the loop: nothing.
Written(co) == [co EXCEPT !.writes = Min(@ + 1, 2)]
send_command_retry(co, connected) ==
    [pending |-> IF connected THEN <<Written(co)>> ELSE <<>>,
     again |-> IF connected THEN <<>> ELSE <<Written(co)>>]
send_command(co, connected) ==
    [pending |-> IF connected THEN <<Written(co)>> ELSE <<>>,
     again |-> <<>>]

\* the BLE loop runs the coroutine of _rewind_control_send
BleSend ==
    /\ ble_queue # <<>>
    /\ Head(ble_queue).kind = "send"
    /\ LET co == Head(ble_queue) IN
       /\ ble_queue' = Tail(ble_queue) \o send_command(co, is_connected[co.dev]).again
       /\ io_log' = io_log \cup {<<"send", "BLE thread">>}
       /\ stale_writes' = IF co.after_loss THEN stale_writes \cup {co.dev}
                          ELSE stale_writes
       /\ inflight' = inflight \o send_command(co, is_connected[co.dev]).pending
       \* the exception of a failed write stays in the future that
       \* run_on_ble_thread returned and rewind_control did not keep
       /\ send_failures' = IF is_connected[co.dev] THEN send_failures
                           ELSE send_failures \cup {"dropped"}
    /\ UNCHANGED <<motor_vars, klippy, ble_loop, ble_devices, is_connected, gate_selected,
                   pc, stage, exc, observer_fired, mmu_paused,
                   fired_inflight, last_mode, faulted>>

\* a pending write completes
BleSent ==
    \E i \in 1 .. Len(inflight) :
        /\ inflight' = SubSeq(inflight, 1, i - 1) \o SubSeq(inflight, i + 1, Len(inflight))
        /\ UNCHANGED <<motor_vars, klippy, ble_loop, ble_devices, is_connected, gate_selected,
                       pc, stage, ble_queue, exc, io_log,
                       observer_fired, mmu_paused, fired_inflight, stale_writes,
                       last_mode, faulted, send_failures>>

\* the BLE loop runs _disconnect_bles
BleDisconnect ==
    /\ ble_queue # <<>>
    /\ Head(ble_queue).kind = "disconnect"
    /\ ble_queue' = Tail(ble_queue)
    /\ LET open == {ble_devices[i] : i \in 1 .. Len(ble_devices)}
                      \cap {d \in Devices : is_connected[d]}
       IN /\ LinkDown(open)
          /\ io_log' = IF open = {} THEN io_log
                       ELSE io_log \cup {<<"disconnect", "BLE thread">>}
    /\ UNCHANGED <<motor_vars, klippy, ble_loop, ble_devices, gate_selected, pc,
                   stage, exc, stale_writes, last_mode, faulted>>

\* MmuRewinderPatch.__init__, before klippy:connect
PatchFields ==
    /\ klippy = "init"
    /\ ble_loop = "None"
    /\ ble_devices = <<>>
    /\ is_connected = [d \in Devices |-> FALSE]
    /\ gate_selected = -1
    /\ pc = "idle"
    /\ stage = [trace_str |-> "", gate |-> -1, gate_status |-> "unread", events |-> <<>>, outcome |-> "none",
                calls |-> <<>>, result |-> None, ret |-> None]
    /\ ble_queue = <<>>
    /\ inflight = <<>>
    /\ exc = "None"
    /\ io_log = {}
    /\ observer_fired = [d \in Devices |-> 0]
    /\ mmu_paused = [d \in Devices |-> 0]
    /\ fired_inflight = FALSE
    /\ stale_writes = {}
    /\ last_mode = [r \in Gates |-> "none"]
    /\ faulted = FALSE
    /\ send_failures = {}

PatchNext ==
    \/ handle_connect
    \/ handle_disconnect
    \/ StageEnter
    \/ MoveReturns
    \/ MoveRaises
    \/ SelectGate
    \/ DeviceLost
    \/ BleSend
    \/ BleSent
    \/ BleDisconnect
\* ------------------------------------------------------ specifications
\* The motor alone, under every configuration; the patch stays as constructed.
MotorInit ==
    /\ \E mp \in MaxPowers, kss \in KickStartSpeeds, kst \in KickStartTimes :
          MotorFields(mp, kss, kst)
    /\ PatchFields

MotorSpec == MotorInit /\ [][MotorNext]_vars

\* The patch and the BLE link; the motor object is constructed and idle.
PatchInit ==
    /\ MotorFields(One, One, 0)
    /\ PatchFields

PatchSpec == PatchInit /\ [][PatchNext]_vars

\* ---------------------------------------------- claims on Drv8833Motor
IsSetSpeed == call.op = "set_speed"
Emitted == IsSetSpeed /\ updates # <<>>
NewVelocity == Clamp(call.velocity)
PreEffectiveTime == Max(call.print_time, pre.last_motor_time + MOTOR_MIN_TIME)
SteadyUpdate == updates[Len(updates)]

\* C5: every scheduled duty update (kick-start pulse or steady state) is at a
\* time >= the previously scheduled duty update's time + MOTOR_MIN_TIME, and
\* last_motor_time never decreases.
C5_MonotonicTiming ==
    /\ \A i \in 1 .. Len(updates) :
          IF i = 1
          THEN sched_prev >= 0 => updates[1].time >= sched_prev + MOTOR_MIN_TIME
          ELSE updates[i].time >= updates[i - 1].time + MOTOR_MIN_TIME
    /\ last_motor_time >= pre.last_motor_time

\* C6: a set_speed call with the same (velocity, decay_mode) as the call
\* before it is a no-op: it schedules no duty update and leaves
\* last_motor_time, the stored duty pair and last_decay_mode unchanged.
C6_IdenticalCallIsNoOp ==
    (IsSetSpeed /\ <<call.velocity, call.decay_mode>> = pre.args) =>
        /\ updates = <<>>
        /\ last_motor_time = pre.last_motor_time
        /\ last_speed_a = pre.last_speed_a
        /\ last_speed_b = pre.last_speed_b
        /\ last_decay_mode = pre.last_decay_mode

\* C7: every duty pair set_speed emits has both values in [0, 1] and at most
\* one of them strictly inside: in fast decay one leg is exactly 0, in slow
\* decay one leg is exactly 1.
C7_DutyPairsWellFormed ==
    \A i \in 1 .. Len(updates) :
        LET u == updates[i] IN
        /\ u.a \in 0 .. One
        /\ u.b \in 0 .. One
        /\ ~ (u.a \in 1 .. One - 1 /\ u.b \in 1 .. One - 1)
        /\ call.decay_mode = "fast" => (u.a = 0 \/ u.b = 0)
        /\ call.decay_mode = "slow" => (u.a = One \/ u.b = One)

\* a clamped, reversed, slow-decay command that was preceded by its pulse
C7_Witness ==
    /\ Len(updates) = 2
    /\ call.decay_mode = "slow"
    /\ call.velocity < - One
    /\ updates[1].b = One /\ updates[1].a \in 1 .. One - 1

\* C8: a set_speed call that is not a no-op issues a kick-start pulse exactly
\* when the new magnitude is nonzero and below max_power, kick_start_time > 0
\* and the velocity changes by more than 0.5.
C8_KickStartExactlyWhen ==
    Emitted =>
        (Len(updates) = 2 <=>
            /\ Abs(NewVelocity) # 0
            /\ Abs(NewVelocity) < max_power
            /\ kick_start_time > 0
            /\ Abs(FSub(NewVelocity, pre.velocity)) > Threshold)

\* C9 as stated: one update at the effective time, or the pulse there and the
\* steady state kick_start_time later; the steady-state time is recorded in
\* last_motor_time and returned.
C9_ReturnsSteadyTime ==
    Emitted =>
        /\ Len(updates) \in {1, 2}
        /\ updates[1].time = PreEffectiveTime
        /\ Len(updates) = 2 => updates[2].time = PreEffectiveTime + kick_start_time
        /\ last_motor_time = SteadyUpdate.time
        /\ ret = <<SteadyUpdate.time>>

\* C9 as amended: as above, the pulse being issued exactly when the new speed
\* is nonzero, kick_start_time is nonzero and the velocity changes by more
\* than 0.5; the steady-state time is recorded in last_motor_time, and
\* set_speed returns nothing.
C9_KickStartSchedule ==
    Emitted =>
        /\ Len(updates) \in {1, 2}
        /\ Len(updates) = 2 <=>
              /\ Abs(NewVelocity) # 0
              /\ kick_start_time # 0
              /\ Abs(FSub(NewVelocity, pre.velocity)) > Threshold
        /\ updates[1].time = PreEffectiveTime
        /\ Len(updates) = 2 => updates[2].time = PreEffectiveTime + kick_start_time
        /\ last_motor_time = SteadyUpdate.time
        /\ ret = None

\* a pulse and a steady state, held back by the minimum interval
C9_Witness ==
    /\ Len(updates) = 2
    /\ pre.last_motor_time > 0
    /\ updates[1].time > call.print_time
    /\ updates[2].time > updates[1].time
    /\ last_motor_time = updates[2].time

\* the reference encoding of section 4.1, for the velocity and decay mode given
Effective(velocity) == FMul(Max(0, Min(Abs(velocity), One)), max_power)
Reference(velocity, decay_mode) ==
    LET p == IF decay_mode = "fast" THEN <<Effective(velocity), 0>>
             ELSE <<One, FSub(One, Effective(velocity))>>
    IN IF velocity >= 0 THEN p ELSE <<p[2], p[1]>>

\* C16: the steady-state duty pair of every set_speed call that is not a no-op
\* is the reference encoding: with effective = clamp(|velocity|, 0, 1) *
\* max_power, (effective, 0) in fast decay and (1, 1 - effective) in slow
\* decay, the pair swapped for a negative velocity.
C16_SteadyPairIsReference ==
    Emitted =>
        /\ <<SteadyUpdate.a, SteadyUpdate.b>> = Reference(call.velocity, call.decay_mode)
        /\ <<last_speed_a, last_speed_b>> = Reference(call.velocity, call.decay_mode)

\* a reversed, clamped slow-decay command on a motor with max_power < 1
C16_Witness ==
    /\ Emitted
    /\ call.velocity < - One
    /\ call.decay_mode = "slow"
    /\ max_power < One
    /\ SteadyUpdate.b = One
    /\ SteadyUpdate.a = One - max_power

\* C17: get_status reports the signed effective velocity and the decay mode of
\* the last set_speed that was not a no-op (0 and "fast" initially) and changes
\* no state; the velocity decoded from the stored duty pair always equals that
\* commanded velocity and is never None.
C17_StatusIsLastCommand ==
    /\ last_motor_velocity # NoVelocity
    /\ last_motor_velocity = commanded.velocity
    /\ last_decay_mode = commanded.decay_mode
    /\ call.op = "get_status" =>
          /\ ret = <<[velocity |-> commanded.velocity,
                      decay_mode |-> commanded.decay_mode]>>
          /\ last_speed_a = pre.last_speed_a
          /\ last_speed_b = pre.last_speed_b
          /\ last_decay_mode = pre.last_decay_mode
          /\ last_motor_time = pre.last_motor_time

\* ------------------------------------------ claims on MmuRewinderPatch
Cmds(events) == SelectSeq(events, LAMBDA e : e.ev = "cmd")
Stops(events) == SelectSeq(events, LAMBDA e : e.ev = "cmd" /\ e.mode = "stop")
EntryModes == {"rewind_fast", "rewind_slow", "load_fast", "load_slow"}
MappedWithGate == Mapped(stage.trace_str) /\ stage.gate >= 0

\* C1: when the wrapped move of a mapped stage (gate selected) raises after
\* the entry mode command, Stop has been issued exactly once for the stage
\* when the fault reaches the caller.
C1_StopIssuedOnFault ==
    (stage.outcome = "raised" /\ MappedWithGate) => Len(Stops(stage.events)) = 1

\* C2: a mapped stage (gate selected) issues exactly one entry mode command
\* before the wrapped move is invoked and, when the move returns, exactly one
\* Stop after it; with no stage faulted, the last command issued to every
\* rewinder between stages is Stop.
C2_EntryThenStop ==
    /\ (stage.outcome = "running" /\ MappedWithGate) =>
          /\ Len(stage.events) = 2
          /\ stage.events[1].ev = "cmd"
          /\ stage.events[1].mode \in EntryModes
          /\ stage.events[1].rewinder = stage.gate
          /\ stage.events[2] = MoveEvent
    /\ (stage.outcome = "returned" /\ MappedWithGate) =>
          /\ Len(Cmds(stage.events)) = 2
          /\ stage.events[1].ev = "cmd"
          /\ stage.events[1].mode \in EntryModes
          /\ stage.events[1].rewinder = stage.gate
          /\ stage.events[2] = MoveEvent
          /\ stage.events[3] = [ev |-> "cmd", rewinder |-> stage.gate, mode |-> "stop"]
    /\ (pc = "idle" /\ ~ faulted) =>
          \A r \in Gates : last_mode[r] \in {"none", "stop"}

\* stages have completed on both gates, the last one on gate 1
C2_Witness ==
    /\ stage.outcome = "returned"
    /\ stage.trace_str = "Course loading move into bowden"
    /\ stage.gate = 1
    /\ stage.events[1].mode = "load_slow"
    /\ last_mode[0] = "stop"
    /\ last_mode[1] = "stop"

\* C3: once the disconnect observer of a device has fired, no rewind_control
\* call made afterwards leads to a frame write on that device.
C3_NoWriteAfterLoss == stale_writes = {}

\* C4: every firing of a device's disconnect observer calls mmu._mmu_pause for
\* that device exactly once, and nothing else does; the firing hands no
\* coroutine to the BLE loop and leaves no write of that device pending.
C4_PauseOncePerFiring ==
    [][\A d \in Devices :
          /\ mmu_paused'[d] - mmu_paused[d] = observer_fired'[d] - observer_fired[d]
          /\ observer_fired'[d] > observer_fired[d] =>
                /\ \/ ble_queue' = ble_queue
                   \/ ble_queue # <<>> /\ ble_queue' = Tail(ble_queue)
                /\ Len(inflight') <= Len(inflight)
                /\ ~ \E i \in 1 .. Len(inflight') : inflight'[i].dev = d]_vars

\* an observer has fired while a send to its device was in flight
C4_Witness ==
    /\ fired_inflight
    /\ \E d \in Devices : observer_fired[d] = 1 /\ mmu_paused[d] = 1

\* C10: every link operation (connect, send, disconnect) runs on the BLE
\* thread's event loop.
C10_AllLinkIoOnBleThread == \A e \in io_log : e[2] = "BLE thread"

\* C11: a send handed to the BLE loop never ends without either completing or
\* producing a failure notification: when the device disconnects or is torn
\* down while the send is in flight, or the send fails otherwise, the failure
\* reaches the caller or the fault handler.
C11_SendFailureReported == "dropped" \notin send_failures

C13_UnmappedStageOnlyMoves ==
    [][(stage' # stage /\ ~ Mapped(stage'.trace_str)) =>
          /\ stage'.events = <<MoveEvent>>
          /\ last_mode' = last_mode
          /\ ble_queue' = ble_queue]_vars

\* an unmapped stage has returned on a gate whose rewinder an earlier, faulted
\* stage left rewinding
C13_Witness ==
    /\ stage.outcome = "returned"
    /\ stage.trace_str = "Homing to extruder sensor"
    /\ stage.gate = 1
    /\ last_mode[1] = "rewind_fast"

\* C14: "Final parking" returns only after the wait for the queued motion
\* commands, and that wait comes after the Stop of the stage; no other stage
\* invokes the wait.
C14_DrainOnlyAfterFinalParking ==
    LET n == Len(stage.events)
        drains == {i \in 1 .. n : stage.events[i].ev = "drain"}
    IN IF stage.outcome = "returned" /\ stage.trace_str = "Final parking"
       THEN /\ drains = {n}
            /\ stage.gate >= 0 =>
                  stage.events[n - 1] =
                      [ev |-> "cmd", rewinder |-> stage.gate, mode |-> "stop"]
       ELSE drains = {}

\* "Final parking" has returned with a gate selected
C14_Witness ==
    /\ stage.outcome = "returned"
    /\ stage.trace_str = "Final parking"
    /\ stage.gate = 0
    /\ Len(stage.events) = 4
    /\ stage.events[4] = DrainEvent

\* C15: with a gate selected, the entry mode of "Course loading move into
\* bowden" is load_fast exactly when the status of the selected gate is
\* GATE_AVAILABLE_FROM_BUFFER and load_slow otherwise; the entry mode of every
\* other mapped stage depends on the stage name only.
C15_LoadModeByGateStatus ==
    (stage.outcome # "none" /\ MappedWithGate) =>
        stage.events[1].mode =
            IF stage.trace_str = "Course loading move into bowden"
            THEN IF stage.gate_status = GATE_AVAILABLE_FROM_BUFFER
                 THEN "load_fast" ELSE "load_slow"
            ELSE IF stage.trace_str = "Course unloading move from bowden"
                 THEN "rewind_fast" ELSE "rewind_slow"

\* a load from the buffer
C15_Witness ==
    /\ stage.outcome = "returned"
    /\ stage.trace_str = "Course loading move into bowden"
    /\ stage.gate = 0
    /\ stage.gate_status = GATE_AVAILABLE_FROM_BUFFER
    /\ stage.events[1].mode = "load_fast"

\* C18: in every ordering of klippy:connect, klippy:disconnect and stage
\* events, klippy:disconnect without a connect before it included, the
\* assertion of run_on_ble_thread (ble_loop is not None) holds.
C18_BleLoopAssertHolds == exc # "AssertionError"

C20_WrappedCalledOnce ==
    stage.outcome # "none" =>
        /\ stage.calls = <<<<stage.trace_str, "*args", "**kwargs">>>>
        /\ Len(SelectSeq(stage.events, LAMBDA e : e.ev = "move")) = 1
        /\ stage.outcome = "returned" =>
              /\ stage.result \in Results(stage.trace_str)
              /\ stage.ret = stage.result

\* a mapped stage has returned with no gate selected: no frame was sent
C20_Witness ==
    /\ stage.outcome = "returned"
    /\ stage.trace_str = "Final parking"
    /\ stage.gate = -1
    /\ Cmds(stage.events) = <<>>
    /\ stage.ret # None

====
